---- MODULE Spec2Model ----
(***************************************************************************)
(* Tenant management of duffy: the tenant controller                       *)
(* (duffy/app/controllers/tenant.py) reached over HTTP, and the            *)
(* AdminContext (duffy/admin.py) that calls the same controller functions  *)
(* in-process.  The relational store is a table of Tenant rows keyed by a  *)
(* store-assigned id with a unique constraint on name.                     *)
(*                                                                         *)
(* Each HTTP request is one transaction and is one step.  A name-addressed *)
(* AdminContext call is two steps: get_tenant_id in its own session, then  *)
(* the proxied controller call in a second session; HTTP requests may      *)
(* commit between the two.                                                 *)
(***************************************************************************)
EXTENDS Integers, FiniteSets, TLC

(* ------------------------------ bounds -------------------------------- *)
MaxId == 2

Names == {"alice", "bob"}
SshKeys == {"ssh-rsa AAA", "ssh-rsa BBB"}
ApiKeys == {"key-1"}
Quotas == {5}
Lifetimes == {3600}

(* ------------------------- python values ------------------------------ *)
\* One shape for the values of update_tenant's locals, so that an int, a
\* str, None and the UNSET sentinel can be compared with each other.
IntV(n) == [t |-> "int", i |-> n, s |-> ""]
StrV(x) == [t |-> "str", i |-> 0, s |-> x]
ObjV(x) == [t |-> "object", i |-> 0, s |-> x]
BoolV(b) == [t |-> "bool", i |-> IF b THEN 1 ELSE 0, s |-> ""]
None == [t |-> "None", i |-> 0, s |-> ""]
UNSET == [t |-> "UNSET", i |-> 0, s |-> ""]

\* Optional[int] of get_tenant_id: ids are positive, NoId stands for None.
NoId == 0

(* --------------------------- the store -------------------------------- *)
VARIABLES tenants, nextId, http, adminPc, adminCall, adminTenantId,
          adminData, adminResult

vars == <<tenants, nextId, http, adminPc, adminCall, adminTenantId,
          adminData, adminResult>>

Store == [tenants |-> tenants, nextId |-> nextId]

\* The Tenant table's defaults for the columns a constructor is not given.
ColumnDefaults ==
    [active |-> TRUE, node_quota |-> None, session_lifetime |-> None,
     session_lifetime_max |-> None]

\* The id the store assigns to a new row: never one it has assigned before.
AssignId(st) == st.nextId

\* NewTenant with the two key columns filled from each other's field.
NewTenant_keys_swapped(data) ==
    [name |-> data.name, is_admin |-> data.is_admin, api_key |-> data.ssh_key,
     ssh_key |-> data.api_key] @@ ColumnDefaults

\* The row built by Tenant(name=, is_admin=, api_key=, ssh_key=).
NewTenant(data) ==
    [name |-> data.name, is_admin |-> data.is_admin, api_key |-> data.api_key,
     ssh_key |-> data.ssh_key] @@ ColumnDefaults

\* A row as it is serialised into a result: the row and its id.
View(st, id) == [id |-> id, row |-> st.tenants[id]]

\* The unique constraint on Tenant.name, checked by the store at commit.
IntegrityError(st, row) == \E i \in DOMAIN st.tenants : st.tenants[i].name = row.name

(* ----------------------- outcomes of a call --------------------------- *)
Return(body) == [kind |-> "return", body |-> body]
HTTPException(status, detail) ==
    [kind |-> "HTTPException", status_code |-> status, detail |-> detail]
Raise(exc) == [kind |-> exc]

HTTP_200_OK == 200
HTTP_201_CREATED == 201
HTTP_404_NOT_FOUND == 404
HTTP_409_CONFLICT == 409

\* HTTPException(status) without a detail carries the status phrase.
Phrase(status) == IF status = HTTP_404_NOT_FOUND THEN "Not Found" ELSE "Conflict"

(* -------------------- duffy/app/controllers/tenant.py ----------------- *)
get_all_tenants(st) ==
    [st |-> st,
     out |-> Return([action |-> "get",
                     tenants |-> {View(st, i) : i \in DOMAIN st.tenants}])]

get_tenant(id, st) ==
    IF id \notin DOMAIN st.tenants
    THEN [st |-> st, out |-> HTTPException(HTTP_404_NOT_FOUND, Phrase(HTTP_404_NOT_FOUND))]
    ELSE [st |-> st, out |-> Return([action |-> "get", tenant |-> View(st, id)])]

create_tenant(data, st) ==
    LET tenant == NewTenant(data) IN
    IF IntegrityError(st, tenant)
    THEN [st |-> st, out |-> HTTPException(HTTP_409_CONFLICT, "IntegrityError")]
    ELSE LET id == AssignId(st)
             committed == [tenants |-> (id :> tenant) @@ st.tenants, nextId |-> id + 1]
         IN [st |-> committed,
             out |-> Return([action |-> "post", tenant |-> View(committed, id)])]

\* delete_tenant with a delete that is not filtered by id.
delete_tenant_every_row(id, st) ==
    IF id \notin DOMAIN st.tenants
    THEN [st |-> st, out |-> HTTPException(HTTP_404_NOT_FOUND, Phrase(HTTP_404_NOT_FOUND))]
    ELSE [st |-> [tenants |-> [i \in {} |-> st.tenants[i]], nextId |-> st.nextId],
          out |-> Return([action |-> "delete", tenant |-> View(st, id)])]

delete_tenant(id, st) ==
    IF id \notin DOMAIN st.tenants
    THEN [st |-> st, out |-> HTTPException(HTTP_404_NOT_FOUND, Phrase(HTTP_404_NOT_FOUND))]
    ELSE [st |-> [tenants |-> [i \in DOMAIN st.tenants \ {id} |-> st.tenants[i]],
                  nextId |-> st.nextId],
          out |-> Return([action |-> "delete", tenant |-> View(st, id)])]

\* The functions the module defines, and the keyword parameters of each.
ControllerFunctions == {"get_all_tenants", "get_tenant", "create_tenant", "delete_tenant"}

Signature(fn) ==
    CASE fn = "get_all_tenants" -> {"db_async_session"}
      [] fn = "get_tenant" -> {"id", "db_async_session"}
      [] fn = "create_tenant" -> {"data", "db_async_session"}
      [] fn = "delete_tenant" -> {"id", "db_async_session"}

\* A call fn(**kw): python rejects a keyword the function does not declare
\* before any of its body runs.
CallController(fn, kw, st) ==
    IF ~(DOMAIN kw \subseteq Signature(fn))
    THEN [st |-> st, out |-> Raise("TypeError")]
    ELSE CASE fn = "get_all_tenants" -> get_all_tenants(st)
           [] fn = "get_tenant" -> get_tenant(kw.id, st)
           [] fn = "create_tenant" -> create_tenant(kw.data, st)
           [] fn = "delete_tenant" -> delete_tenant(kw.id, st)

(* ----------------------------- HTTP path ------------------------------ *)
\* The status the route declares for a normal return.
SuccessStatus(fn) == IF fn = "create_tenant" THEN HTTP_201_CREATED ELSE HTTP_200_OK

\* The hosting framework's response to what the route function did.
HttpResponse(fn, out) ==
    IF out.kind = "return"
    THEN [status |-> SuccessStatus(fn), body |-> out.body]
    ELSE [status |-> out.status_code, body |-> [detail |-> out.detail]]

\* One request: the injected session is the only keyword besides the route's own.
HttpRequest(fn, kw) ==
    LET r == CallController(fn, [db_async_session |-> "request"] @@ kw, Store) IN
    /\ tenants' = r.st.tenants
    /\ nextId' = r.st.nextId
    /\ http' = [fn |-> fn, kw |-> kw, response |-> HttpResponse(fn, r.out)]
    /\ UNCHANGED <<adminPc, adminCall, adminTenantId, adminData, adminResult>>

Ids == 1..(MaxId + 1)

NoKw == [x \in {} |-> 0]

HttpGetAll == HttpRequest("get_all_tenants", NoKw)

HttpGet == \E id \in Ids : HttpRequest("get_tenant", [id |-> id])

HttpCreate ==
    /\ nextId <= MaxId
    /\ \E name \in Names, ssh_key \in SshKeys, api_key \in ApiKeys, is_admin \in BOOLEAN :
          HttpRequest("create_tenant",
                      [data |-> [name |-> name, ssh_key |-> ssh_key,
                                 api_key |-> api_key, is_admin |-> is_admin]])

HttpDelete == \E id \in Ids : HttpRequest("delete_tenant", [id |-> id])

(* ----------------------------- duffy/admin.py ------------------------- *)
\* proxy_controller_function: the controller function is called with the
\* synthetic admin caller and the proxy's own session next to the wrapper's
\* keywords.  A normal return commits, an HTTPException is rolled back and
\* returned as data, any other exception leaves through the session's
\* context managers (which roll back) to the caller.
proxy_controller_function(fn, kw, st) ==
    LET r == CallController(fn, [tenant |-> "FakeAPITenant", db_async_session |-> "admin"] @@ kw, st)
    IN CASE r.out.kind = "return" -> [st |-> r.st, result |-> Return(r.out.body)]
         [] r.out.kind = "HTTPException" ->
               [st |-> st, result |-> Return([error |-> [detail |-> r.out.detail]])]
         [] OTHER -> [st |-> st, result |-> Raise(r.out.kind)]

\* Delegate with retirement done as a removal of the row.
Delegate_retire_removes(fn, kw, st) ==
    IF fn \in ControllerFunctions
    THEN proxy_controller_function(fn, kw, st)
    ELSE LET r == delete_tenant(kw.id, st) IN
         [st |-> r.st, result |-> IF r.out.kind = "return" THEN Return(r.out.body)
                                  ELSE Return([error |-> [detail |-> r.out.detail]])]

\* tenant.<fn> in a wrapper: an attribute the controller module does not
\* define raises AttributeError while the wrapper evaluates its arguments,
\* before the proxy is entered.
Delegate(fn, kw, st) ==
    IF fn \in ControllerFunctions
    THEN proxy_controller_function(fn, kw, st)
    ELSE [st |-> st, result |-> Raise("AttributeError")]

\* select(Tenant.id).filter_by(name=name) ... scalar_one_or_none()
get_tenant_id(name, st) ==
    IF \E i \in DOMAIN st.tenants : st.tenants[i].name = name
    THEN CHOOSE i \in DOMAIN st.tenants : st.tenants[i].name = name
    ELSE NoId

TenantNotFound == Return([error |-> [detail |-> "Tenant not found"]])

\* The validated creation payload; api_key is not passed by the wrapper and
\* is filled in by the payload model.
TenantCreateModel(name, ssh_key, is_admin, node_quota, session_lifetime, session_lifetime_max) ==
    [name |-> name, ssh_key |-> ssh_key, is_admin |-> is_admin,
     api_key |-> CHOOSE k \in ApiKeys : TRUE, node_quota |-> node_quota,
     session_lifetime |-> session_lifetime, session_lifetime_max |-> session_lifetime_max]

TenantRetireModel(active) == [active |-> BoolV(active)]

\* locals() of update_tenant where the payload is built: the parameters,
\* self included, and tenant_id, which is already assigned.
UpdateLocals(call, tenant_id) ==
    [self |-> ObjV("AdminContext"), name |-> StrV(call.name),
     api_key |-> call.api_key, ssh_key |-> call.ssh_key,
     node_quota |-> call.node_quota, session_lifetime |-> call.session_lifetime,
     session_lifetime_max |-> call.session_lifetime_max,
     tenant_id |-> IntV(tenant_id)]

\* {key: value for key, value in locals().items()
\*  if key != "name" and value is not UNSET}
UpdateData(locals) ==
    [key \in {k \in DOMAIN locals : k # "name" /\ locals[k] # UNSET} |-> locals[key]]

Pending == [kind |-> "pending"]

AdminFinish(r, data) ==
    /\ tenants' = r.st.tenants
    /\ nextId' = r.st.nextId
    /\ adminResult' = r.result
    /\ adminData' = data
    /\ adminPc' = "idle"

\* list_tenants()
AdminListTenants ==
    /\ adminPc = "idle"
    /\ adminCall' = [op |-> "list_tenants"]
    /\ adminTenantId' = NoId
    /\ AdminFinish(Delegate("get_all_tenants", NoKw, Store), NoKw)
    /\ UNCHANGED http

\* create_tenant(name, ssh_key, node_quota, session_lifetime, session_lifetime_max, is_admin)
AdminCreateTenant ==
    /\ adminPc = "idle"
    /\ \E name \in Names, ssh_key \in SshKeys, is_admin \in BOOLEAN :
          LET tenant_data == TenantCreateModel(name, ssh_key, is_admin, None, None, None) IN
          /\ adminCall' = [op |-> "create_tenant", name |-> name, ssh_key |-> ssh_key,
                           is_admin |-> is_admin]
          /\ AdminFinish(Delegate("create_tenant", [data |-> tenant_data], Store), NoKw)
    /\ adminTenantId' = NoId
    /\ UNCHANGED http

\* The first half of show_tenant, retire_unretire_tenant and update_tenant:
\* get_tenant_id in its own session, and the early return when it finds
\* nothing.
AdminResolve(call) ==
    /\ adminPc = "idle"
    /\ adminCall' = call
    /\ adminTenantId' = get_tenant_id(call.name, Store)
    /\ adminData' = NoKw
    /\ IF adminTenantId' = NoId
       THEN adminResult' = TenantNotFound /\ adminPc' = "idle"
       ELSE adminResult' = Pending /\ adminPc' = "resolved"
    /\ UNCHANGED <<tenants, nextId, http>>

OptStr(S) == {UNSET, None} \cup {StrV(x) : x \in S}
OptInt(S) == {UNSET, None} \cup {IntV(x) : x \in S}

AdminShowTenantBegin ==
    \E name \in Names : AdminResolve([op |-> "show_tenant", name |-> name])

AdminRetireBegin ==
    \E name \in Names, retire \in BOOLEAN :
        AdminResolve([op |-> "retire_unretire_tenant", name |-> name, retire |-> retire])

\* update_tenant(name, api_key, ssh_key, node_quota, session_lifetime,
\* session_lifetime_max) with each optional parameter drawn from its set.
UpdateCalls(api_keys, ssh_keys, node_quotas, lifetimes, lifetimes_max) ==
    {[op |-> "update_tenant", name |-> name, api_key |-> api_key,
      ssh_key |-> ssh_key, node_quota |-> node_quota,
      session_lifetime |-> session_lifetime,
      session_lifetime_max |-> session_lifetime_max] :
        name \in Names, api_key \in api_keys, ssh_key \in ssh_keys,
        node_quota \in node_quotas, session_lifetime \in lifetimes,
        session_lifetime_max \in lifetimes_max}

\* Every combination of omitted, None and a value.
AllUpdateCalls ==
    UpdateCalls(OptStr(ApiKeys), OptStr(SshKeys), OptInt(Quotas),
                OptInt(Lifetimes), OptInt(Lifetimes))

\* The calls interleaved with HTTP requests: node_quota omitted, None or a
\* value, ssh_key omitted or a value, the rest omitted.
FewUpdateCalls ==
    UpdateCalls({UNSET}, {UNSET} \cup {StrV(x) : x \in SshKeys}, OptInt(Quotas),
                {UNSET}, {UNSET})

AdminUpdateBegin == \E call \in FewUpdateCalls : AdminResolve(call)

AdminUpdateBeginAny == \E call \in AllUpdateCalls : AdminResolve(call)

\* The second half: the payload is built and the controller function is
\* called through the proxy with the id found by the first half.
AdminShowTenantEnd ==
    /\ adminPc = "resolved" /\ adminCall.op = "show_tenant"
    /\ AdminFinish(Delegate("get_tenant", [id |-> adminTenantId], Store), NoKw)
    /\ UNCHANGED <<http, adminCall, adminTenantId>>

AdminRetireEnd ==
    /\ adminPc = "resolved" /\ adminCall.op = "retire_unretire_tenant"
    /\ LET retire_data == TenantRetireModel(~adminCall.retire) IN
       AdminFinish(Delegate("update_tenant", [id |-> adminTenantId, data |-> retire_data], Store),
                   retire_data)
    /\ UNCHANGED <<http, adminCall, adminTenantId>>

AdminUpdateEnd ==
    /\ adminPc = "resolved" /\ adminCall.op = "update_tenant"
    /\ LET data == UpdateData(UpdateLocals(adminCall, adminTenantId)) IN
       AdminFinish(Delegate("update_tenant", [id |-> adminTenantId, data |-> data], Store), data)
    /\ UNCHANGED <<http, adminCall, adminTenantId>>

(* --------------------------- specification ---------------------------- *)
Init ==
    /\ tenants = NoKw
    /\ nextId = 1
    /\ http = [fn |-> "none"]
    /\ adminPc = "idle"
    /\ adminCall = [op |-> "none"]
    /\ adminTenantId = NoId
    /\ adminData = NoKw
    /\ adminResult = Pending

HttpStep == HttpGetAll \/ HttpGet \/ HttpCreate \/ HttpDelete

AdminStep ==
    \/ AdminListTenants \/ AdminCreateTenant
    \/ AdminShowTenantBegin \/ AdminRetireBegin \/ AdminUpdateBegin
    \/ AdminShowTenantEnd \/ AdminRetireEnd \/ AdminUpdateEnd

Next == HttpStep \/ AdminStep

Spec == Init /\ [][Next]_vars

\* The payload of update_tenant over every combination of its optional
\* parameters, against a store that holds one tenant.
OneTenant ==
    1 :> NewTenant([name |-> "alice", ssh_key |-> "ssh-rsa AAA", api_key |-> "key-1",
                    is_admin |-> FALSE])

PayloadInit ==
    /\ tenants = OneTenant
    /\ nextId = 2
    /\ http = [fn |-> "none"]
    /\ adminPc = "idle"
    /\ adminCall = [op |-> "none"]
    /\ adminTenantId = NoId
    /\ adminData = NoKw
    /\ adminResult = Pending

PayloadNext == AdminUpdateBeginAny \/ AdminUpdateEnd

SpecPayload == PayloadInit /\ [][PayloadNext]_vars

(* ------------------------------ properties ---------------------------- *)
CreateKw(name, ssh_key, api_key, is_admin) ==
    [data |-> [name |-> name, ssh_key |-> ssh_key, api_key |-> api_key, is_admin |-> is_admin]]

NameTaken(name) == \E i \in DOMAIN tenants : tenants[i].name = name

\* What an AdminContext call handed back: a normal result, the structured
\* error value, or an exception that reached the caller.
IsNormal(result) == result.kind = "return" /\ "error" \notin DOMAIN result.body
IsError(result) == result.kind = "return" /\ "error" \in DOMAIN result.body
IsRaised(result) == result.kind \notin {"return", "pending"}

\* C2: a tenant created by create_tenant is returned by a later get_tenant on
\* the id the create returned, with the same id, name and ssh_key: the create
\* answers 201 with a new id and the name and ssh_key of the request and
\* stores that row, a stored row keeps its name and ssh_key for as long as
\* it exists, and get_tenant on a stored id answers 200, action "get", with
\* that id and the stored name and ssh_key.
C2_CreateThenGet ==
    [][/\ \A name \in Names, ssh_key \in SshKeys, api_key \in ApiKeys, is_admin \in BOOLEAN :
            (HttpRequest("create_tenant", CreateKw(name, ssh_key, api_key, is_admin))
                /\ http'.response.status = HTTP_201_CREATED)
            => LET t == http'.response.body.tenant IN
               /\ http'.response.body.action = "post"
               /\ t.id \in DOMAIN tenants' \ DOMAIN tenants
               /\ t.row.name = name /\ t.row.ssh_key = ssh_key
               /\ tenants'[t.id].name = name /\ tenants'[t.id].ssh_key = ssh_key
       /\ \A i \in DOMAIN tenants \cap DOMAIN tenants' :
            tenants'[i].name = tenants[i].name /\ tenants'[i].ssh_key = tenants[i].ssh_key
       /\ \A i \in DOMAIN tenants :
            HttpRequest("get_tenant", [id |-> i])
            => /\ http'.response.status = HTTP_200_OK
               /\ http'.response.body.action = "get"
               /\ http'.response.body.tenant.id = i
               /\ http'.response.body.tenant.row.name = tenants[i].name
               /\ http'.response.body.tenant.row.ssh_key = tenants[i].ssh_key
      ]_vars

\* C2 witness: a get_tenant answered 200 with a tenant created earlier.
C2_Witness ==
    /\ http.fn = "get_tenant"
    /\ http.response.status = HTTP_200_OK
    /\ http.kw.id \in DOMAIN tenants
    /\ http.response.body.tenant.row.ssh_key = tenants[http.kw.id].ssh_key

\* C8: delete_tenant on a stored id answers 200 with action "delete" and the
\* row as it was before the call, removes that row and no other and changes
\* no other row; an id the store has assigned and no longer holds is never
\* held again, and get_tenant and delete_tenant on an id that is not stored
\* answer 404.
C8_DeleteRemovesExactlyOne ==
    [][/\ \A i \in DOMAIN tenants :
            HttpRequest("delete_tenant", [id |-> i])
            => /\ http'.response.status = HTTP_200_OK
               /\ http'.response.body = [action |-> "delete",
                                         tenant |-> [id |-> i, row |-> tenants[i]]]
               /\ DOMAIN tenants' = DOMAIN tenants \ {i}
               /\ \A j \in DOMAIN tenants' : tenants'[j] = tenants[j]
               /\ nextId' = nextId
       /\ \A i \in Ids : (i < nextId /\ i \notin DOMAIN tenants) => i \notin DOMAIN tenants'
       /\ \A i \in Ids \ DOMAIN tenants :
            (HttpRequest("get_tenant", [id |-> i]) \/ HttpRequest("delete_tenant", [id |-> i]))
            => http'.response.status = HTTP_404_NOT_FOUND
      ]_vars

\* C8 witness: a delete answered 200 for an id that is gone while another
\* tenant is still stored.
C8_Witness ==
    /\ http.fn = "delete_tenant"
    /\ http.response.status = HTTP_200_OK
    /\ http.kw.id \notin DOMAIN tenants
    /\ DOMAIN tenants # {}

\* C9: no AdminContext step removes a tenant or changes its id or name: every
\* row stored before the step is stored after it under the same id with the
\* same name, and a retire step changes no column of any row but active.
C9_AdminNeverRemoves ==
    [][AdminStep =>
         /\ \A i \in DOMAIN tenants :
              i \in DOMAIN tenants' /\ tenants'[i].name = tenants[i].name
         /\ AdminRetireEnd =>
              \A i \in DOMAIN tenants :
                 [tenants'[i] EXCEPT !.active = tenants[i].active] = tenants[i]
      ]_vars

\* C9 witness: a retire call on a stored tenant has come back and the tenant
\* is still stored under the id the call resolved.
C9_Witness ==
    /\ adminPc = "idle"
    /\ adminCall.op = "retire_unretire_tenant" /\ adminCall.retire
    /\ adminResult # TenantNotFound
    /\ adminTenantId \in DOMAIN tenants
    /\ tenants[adminTenantId].name = adminCall.name

\* C1: no two stored tenants share a name, and a create_tenant whose name is
\* already stored yields Conflict and leaves the stored rows as they were:
\* status 409 over HTTP, the structured error value through AdminContext.
C1_UniqueNameOrConflict ==
    [][/\ \A i, j \in DOMAIN tenants' : tenants'[i].name = tenants'[j].name => i = j
       /\ \A name \in Names, ssh_key \in SshKeys, api_key \in ApiKeys, is_admin \in BOOLEAN :
            (HttpRequest("create_tenant", CreateKw(name, ssh_key, api_key, is_admin))
                /\ NameTaken(name))
            => http'.response.status = HTTP_409_CONFLICT /\ tenants' = tenants
       /\ (AdminCreateTenant /\ NameTaken(adminCall'.name))
            => IsError(adminResult') /\ tenants' = tenants
      ]_vars

\* C3: get_tenant and delete_tenant on an id that is not stored yield
\* NotFound and change no stored row: status 404 over HTTP, and through
\* AdminContext the structured error with detail "Tenant not found".
C3_NotFoundOnAbsentId ==
    [][/\ \A i \in Ids \ DOMAIN tenants :
            (HttpRequest("get_tenant", [id |-> i]) \/ HttpRequest("delete_tenant", [id |-> i]))
            => http'.response.status = HTTP_404_NOT_FOUND /\ tenants' = tenants
       /\ (AdminShowTenantEnd /\ adminTenantId \notin DOMAIN tenants)
            => adminResult' = TenantNotFound /\ tenants' = tenants
      ]_vars

\* C4: retire_unretire_tenant on a stored tenant returns a normal result and
\* leaves active = FALSE for retire = TRUE and active = TRUE for
\* retire = FALSE, whatever active was before.
C4_RetireSetsActive ==
    [][(AdminRetireEnd /\ adminTenantId \in DOMAIN tenants)
         => /\ IsNormal(adminResult')
            /\ adminTenantId \in DOMAIN tenants'
            /\ tenants'[adminTenantId].active = ~adminCall.retire
      ]_vars

\* C5: update_tenant on a stored tenant gives each supplied field the
\* supplied value and leaves every other field of that tenant and every
\* field of every other tenant as it was.
C5_UpdateChangesOnlySupplied ==
    [][(AdminUpdateEnd /\ adminTenantId \in DOMAIN tenants)
         => /\ DOMAIN tenants' = DOMAIN tenants
            /\ \A j \in DOMAIN tenants \ {adminTenantId} : tenants'[j] = tenants[j]
            /\ LET old == tenants[adminTenantId]
                   new == tenants'[adminTenantId]
                   Kept(given, before, after) ==
                       IF given = UNSET THEN after = before ELSE after = given
               IN /\ new.name = old.name
                  /\ new.is_admin = old.is_admin
                  /\ new.active = old.active
                  /\ Kept(adminCall.api_key, StrV(old.api_key), StrV(new.api_key))
                  /\ Kept(adminCall.ssh_key, StrV(old.ssh_key), StrV(new.ssh_key))
                  /\ Kept(adminCall.node_quota, old.node_quota, new.node_quota)
                  /\ Kept(adminCall.session_lifetime, old.session_lifetime,
                          new.session_lifetime)
                  /\ Kept(adminCall.session_lifetime_max, old.session_lifetime_max,
                          new.session_lifetime_max)
      ]_vars

OptionalParams ==
    {"api_key", "ssh_key", "node_quota", "session_lifetime", "session_lifetime_max"}

\* C6: the keys of the payload update_tenant builds are exactly the optional
\* parameters the caller passed, each with the value passed (None included);
\* no omitted parameter and no other name is a key.
C6_PayloadKeysArePassedParams ==
    (adminPc = "idle" /\ adminCall.op = "update_tenant" /\ adminResult # TenantNotFound)
    => /\ DOMAIN adminData = {k \in OptionalParams : adminCall[k] # UNSET}
       /\ \A k \in DOMAIN adminData : adminData[k] = adminCall[k]

\* C7: no AdminContext call lets an exception reach its caller: what a call
\* hands back is a normal result or the structured error value.
C7_AdminNeverRaises == ~IsRaised(adminResult)

\* C10: when an HTTP delete_tenant removes the tenant between the lookup by
\* name and the controller call, show_tenant, retire_unretire_tenant and
\* update_tenant return the structured error with detail "Tenant not found"
\* and change no stored row.
C10_DeletedBetweenLookupAndCall ==
    [][((AdminShowTenantEnd \/ AdminRetireEnd \/ AdminUpdateEnd)
            /\ adminTenantId \notin DOMAIN tenants)
         => adminResult' = TenantNotFound /\ tenants' = tenants
      ]_vars

====
